---- MODULE Spec2Model ----
(***************************************************************************)
(* Model of the OpenCascade shape-factory adapter of chili (ShapeFactory,  *)
(* ensureOccShape, convertShapeResult), of the Result container it returns *)
(* and of QuaternionConverter.convertBack.                                 *)
(*                                                                         *)
(* Numbers live on an integer grid: coordinates are grid units, epsilon is *)
(* Eps grid units, radians are fixed point in units of 1/10000 rad.        *)
(* A call of a handler is one action; the value the native kernel returns  *)
(* is an input of the handler, drawn from KernelOutcomes.                  *)
(***************************************************************************)
EXTENDS Integers, Sequences, FiniteSets, TLC

VARIABLES op, args, kcalls, ret

vars == <<op, args, kcalls, ret>>

(***************************************************************************)
(* Bounds of the model.                                                    *)
(***************************************************************************)
MaxCoord == 3
NumHandles == 2
MaxLen == 3
MaxText == 6

(***************************************************************************)
(* Program constants.                                                      *)
(***************************************************************************)
\* Precision.Float of chili-core, in grid units; coordinates are even, so no
\* difference of coordinates and no distance is exactly epsilon.
Eps == 5
\* Math.PI in units of 1/10000.
Pi10k == 31416

OccMsg == "The OCC kernel only supports OCC geometries."
LineMsg == "The start and end points are too close."
PrismMsg == "The vector length is 0, the prism cannot be created."
QuatMsg == " convert to Quaternion error"

(***************************************************************************)
(* Values.                                                                 *)
(***************************************************************************)
Coords == {2 * c : c \in 0 .. MaxCoord}
Points == [x : Coords, y : Coords, z : Coords]
\* a few distinct points for the arguments that are only passed through
SamplePoints == {[x |-> c, y |-> 0, z |-> 2 * MaxCoord - c] : c \in Coords}
Degrees == {-90, 0, 30, 45, 180, 360}
Lengths == {1, 5}
Handles == 1 .. NumHandles
\* an IShape: an OccShape wrapper owning a native handle, or another
\* implementation of the interface (what it carries is no kernel handle)
OccShape(h) == [cls |-> "OccShape", shape |-> h]
Foreign == [cls |-> "Foreign", shape |-> 0]
Shapes == {OccShape(h) : h \in Handles} \cup {Foreign}
SeqsUpTo(S, n) == UNION {[1 .. m -> S] : m \in 0 .. n}
ShapeLists == SeqsUpTo(Shapes, MaxLen)
Planes == [origin : SamplePoints, normal : {[x |-> 0, y |-> 0, z |-> 1]},
           xvec : {[x |-> 1, y |-> 0, z |-> 0]}]
Rays == [location : SamplePoints, direction : {[x |-> 0, y |-> 0, z |-> 1]}]

\* a JavaScript value: its type and its text
JsString(s) == [t |-> "string", repr |-> s]
JsUndefined == [t |-> "undefined", repr |-> "undefined"]
JsBoolean(b) == [t |-> "boolean", repr |-> IF b THEN "true" ELSE "false"]
JsNumber(n) == [t |-> "number", repr |-> ToString(n)]
\* String(v)
String(v) == v.repr

KernelErrors == {JsString("BRepBuilderAPI: command not done"), JsUndefined, JsNumber(7)}
\* ShapeResult of the wasm binding
KernelOutcomes == {[isOk |-> TRUE, shape |-> h] : h \in Handles}
                    \cup {[isOk |-> FALSE, error |-> e] : e \in KernelErrors}

(***************************************************************************)
(* How a call ends: it returns a value or it throws.                       *)
(***************************************************************************)
Return(v) == [kind |-> "return", value |-> v]
Throw(m) == [kind |-> "throw", message |-> m]

(***************************************************************************)
(* Result<T, E>                                                            *)
(***************************************************************************)
\* isOk taken from the payload instead of from the constructor
ResultOk_truthy(value) ==
    [isOk |-> value # JsUndefined /\ value # JsBoolean(FALSE), value |-> value]

ResultOk(value) == [isOk |-> TRUE, value |-> value]
ResultErr(error) == [isOk |-> FALSE, error |-> error]

(***************************************************************************)
(* chili-core helpers                                                      *)
(***************************************************************************)
Abs(n) == IF n < 0 THEN -n ELSE n
allEqualZero(values) == ~ \E i \in 1 .. Len(values) : Abs(values[i]) > Eps
degToRad(degrees) == (degrees * Pi10k) \div 180
lengthSq(vec) == vec.x * vec.x + vec.y * vec.y + vec.z * vec.z
\* XYZ.length(): the integer part of the root
length(vec) == CHOOSE r \in 0 .. lengthSq(vec) : r * r <= lengthSq(vec) /\ lengthSq(vec) < (r + 1) * (r + 1)
wrapShape(shape) == OccShape(shape)
toAx3(plane) == [location |-> plane.origin, direction |-> plane.normal, xDirection |-> plane.xvec]

(***************************************************************************)
(* ensureOccShape: the argument is an array of shapes or one shape.        *)
(***************************************************************************)
Arr(shapes) == [array |-> TRUE, elems |-> shapes]
One(shape) == [array |-> FALSE, elems |-> <<shape>>]
instanceofOccShape(x) == x.cls = "OccShape"

\* the array branch without its instanceof test
ensureOccShape_unchecked(shapes) ==
    IF shapes.array
    THEN Return([i \in 1 .. Len(shapes.elems) |-> shapes.elems[i].shape])
    ELSE IF instanceofOccShape(shapes.elems[1])
         THEN Return(<<shapes.elems[1].shape>>)
         ELSE Throw(OccMsg)

\* the array branch filling its result back to front
ensureOccShape_reversed(shapes) ==
    IF shapes.array
    THEN IF \E i \in 1 .. Len(shapes.elems) : ~ instanceofOccShape(shapes.elems[i])
         THEN Throw(OccMsg)
         ELSE Return([i \in 1 .. Len(shapes.elems) |->
                          shapes.elems[Len(shapes.elems) + 1 - i].shape])
    ELSE IF instanceofOccShape(shapes.elems[1])
         THEN Return(<<shapes.elems[1].shape>>)
         ELSE Throw(OccMsg)

ensureOccShape(shapes) ==
    IF shapes.array
    THEN IF \E i \in 1 .. Len(shapes.elems) : ~ instanceofOccShape(shapes.elems[i])
         THEN Throw(OccMsg)
         ELSE Return([i \in 1 .. Len(shapes.elems) |-> shapes.elems[i].shape])
    ELSE IF instanceofOccShape(shapes.elems[1])
         THEN Return(<<shapes.elems[1].shape>>)
         ELSE Throw(OccMsg)

\* the kernel's error replaced by a fixed text
convertShapeResult_generic(result) ==
    IF ~ result.isOk
    THEN ResultErr("kernel error")
    ELSE ResultOk(wrapShape(result.shape))

convertShapeResult(result) ==
    IF ~ result.isOk
    THEN ResultErr(String(result.error))
    ELSE ResultOk(wrapShape(result.shape))

(***************************************************************************)
(* A run of a handler: the kernel calls it made and how it ended.          *)
(***************************************************************************)
Run(calls, r) == [kcalls |-> calls, ret |-> r]
\* convertShapeResult(wasm.ShapeFactory.fn(a)), the kernel answering k; the
\* log entry of the call keeps its arguments and its answer
Kernel(fn, a, k) == Run(<<[fn |-> fn, args |-> a, result |-> k]>>, Return(convertShapeResult(k)))
NoKernel(r) == Run(<<>>, r)

(***************************************************************************)
(* ShapeFactory: every handler takes its arguments and k, the ShapeResult  *)
(* the kernel answers if the handler reaches its kernel call.              *)
(***************************************************************************)
face(wire, k) ==
    LET shapes == ensureOccShape(Arr(wire))
    IN  IF shapes.kind = "throw" THEN NoKernel(shapes)
        ELSE Kernel("face", <<shapes.value>>, k)

\* weights ?? []
orEmpty(weights) == IF weights.given THEN weights.v ELSE <<>>

bezier(points, weights, k) == Kernel("bezier", <<points, orEmpty(weights)>>, k)

point(pnt, k) == Kernel("point", <<pnt>>, k)

\* start and end compared exactly instead of within epsilon
line_exact(start, end, k) ==
    IF start = end
    THEN NoKernel(Return(ResultErr(LineMsg)))
    ELSE Kernel("line", <<start, end>>, k)

\* the kernel called before the points are compared
line_late(start, end, k) ==
    IF allEqualZero(<<start.x - end.x, start.y - end.y, start.z - end.z>>)
    THEN Run(<<[fn |-> "line", args |-> <<start, end>>, result |-> k]>>,
             Return(ResultErr(LineMsg)))
    ELSE Kernel("line", <<start, end>>, k)

line(start, end, k) ==
    IF allEqualZero(<<start.x - end.x, start.y - end.y, start.z - end.z>>)
    THEN NoKernel(Return(ResultErr(LineMsg)))
    ELSE Kernel("line", <<start, end>>, k)

arc(normal, center, start, angle, k) ==
    Kernel("arc", <<normal, center, start, degToRad(angle)>>, k)

circle(normal, center, radius, k) == Kernel("circle", <<normal, center, radius>>, k)

rect(plane, dx, dy, k) == Kernel("rect", <<toAx3(plane), dx, dy>>, k)

polygon(points, k) == Kernel("polygon", <<points>>, k)

box(plane, dx, dy, dz, k) == Kernel("box", <<toAx3(plane), dx, dy, dz>>, k)

wire(edges, k) ==
    LET shapes == ensureOccShape(Arr(edges))
    IN  IF shapes.kind = "throw" THEN NoKernel(shapes)
        ELSE Kernel("wire", <<shapes.value>>, k)

prism(shape, vec, k) ==
    IF length(vec) = 0
    THEN NoKernel(Return(ResultErr(PrismMsg)))
    ELSE LET s == ensureOccShape(One(shape))
         IN  IF s.kind = "throw" THEN NoKernel(s)
             ELSE Kernel("prism", <<s.value[1], vec>>, k)

\* the two operands handed over in the other order
fuse_swapped(bottom, top, k) ==
    LET s1 == ensureOccShape(One(bottom))
        s2 == ensureOccShape(One(top))
    IN  IF s1.kind = "throw" THEN NoKernel(s1)
        ELSE IF s2.kind = "throw" THEN NoKernel(s2)
        ELSE Kernel("booleanFuse", <<s2.value, s1.value>>, k)

\* the arguments of the kernel call are evaluated left to right, then the
\* kernel is called with the two arrays
fuse(bottom, top, k) ==
    LET s1 == ensureOccShape(One(bottom))
        s2 == ensureOccShape(One(top))
    IN  IF s1.kind = "throw" THEN NoKernel(s1)
        ELSE IF s2.kind = "throw" THEN NoKernel(s2)
        ELSE Kernel("booleanFuse", <<s1.value, s2.value>>, k)

sweep(profile, path, k) ==
    LET s1 == ensureOccShape(One(profile))
        s2 == ensureOccShape(One(path))
    IN  IF s1.kind = "throw" THEN NoKernel(s1)
        ELSE IF s2.kind = "throw" THEN NoKernel(s2)
        ELSE Kernel("sweep", <<s1.value[1], s2.value[1]>>, k)

\* the angle handed over in degrees
revolve_degrees(profile, axis, angle, k) ==
    LET s == ensureOccShape(One(profile))
    IN  IF s.kind = "throw" THEN NoKernel(s)
        ELSE Kernel("revolve", <<s.value[1], axis, angle>>, k)

revolve(profile, axis, angle, k) ==
    LET s == ensureOccShape(One(profile))
    IN  IF s.kind = "throw" THEN NoKernel(s)
        ELSE Kernel("revolve", <<s.value[1], axis, degToRad(angle)>>, k)

booleanCommon(shape1, shape2, k) ==
    LET s1 == ensureOccShape(One(shape1))
        s2 == ensureOccShape(One(shape2))
    IN  IF s1.kind = "throw" THEN NoKernel(s1)
        ELSE IF s2.kind = "throw" THEN NoKernel(s2)
        ELSE Kernel("booleanCommon", <<s1.value, s2.value>>, k)

booleanCut(shape1, shape2, k) ==
    LET s1 == ensureOccShape(One(shape1))
        s2 == ensureOccShape(One(shape2))
    IN  IF s1.kind = "throw" THEN NoKernel(s1)
        ELSE IF s2.kind = "throw" THEN NoKernel(s2)
        ELSE Kernel("booleanCut", <<s1.value, s2.value>>, k)

booleanFuse(shape1, shape2, k) ==
    LET s1 == ensureOccShape(One(shape1))
        s2 == ensureOccShape(One(shape2))
    IN  IF s1.kind = "throw" THEN NoKernel(s1)
        ELSE IF s2.kind = "throw" THEN NoKernel(s2)
        ELSE Kernel("booleanFuse", <<s1.value, s2.value>>, k)

combine(shapes, k) ==
    LET s == ensureOccShape(Arr(shapes))
    IN  IF s.kind = "throw" THEN NoKernel(s)
        ELSE Kernel("combine", <<s.value>>, k)

makeThickSolidBySimple(shape, thickness, k) ==
    LET s == ensureOccShape(One(shape))
    IN  IF s.kind = "throw" THEN NoKernel(s)
        ELSE Kernel("makeThickSolidBySimple", <<s.value[1], thickness>>, k)

makeThickSolidByJoin(shape, closingFaces, thickness, k) ==
    LET s == ensureOccShape(One(shape))
        c == ensureOccShape(Arr(closingFaces))
    IN  IF s.kind = "throw" THEN NoKernel(s)
        ELSE IF c.kind = "throw" THEN NoKernel(c)
        ELSE Kernel("makeThickSolidByJoin", <<s.value[1], c.value, thickness>>, k)

(***************************************************************************)
(* QuaternionConverter.convertBack: a text is a sequence of characters.    *)
(***************************************************************************)
Alphabet == {"1", "2", ",", "a"}
Digits == {"1", "2"}
Texts == SeqsUpTo(Alphabet, MaxText)

DigitVal(c) == IF c = "1" THEN 1 ELSE 2

\* value.split(","): the fields between the commas, empty fields included
RECURSIVE split(_)
split(value) ==
    IF \A i \in 1 .. Len(value) : value[i] # ","
    THEN <<value>>
    ELSE LET i == CHOOSE j \in 1 .. Len(value) :
                     value[j] = "," /\ \A h \in 1 .. j - 1 : value[h] # ","
         IN  <<SubSeq(value, 1, i - 1)>> \o split(SubSeq(value, i + 1, Len(value)))

RECURSIVE Decimal(_)
Decimal(x) ==
    IF x = <<>> THEN 0
    ELSE 10 * Decimal(SubSeq(x, 1, Len(x) - 1)) + DigitVal(x[Len(x)])

\* Number(x): the empty string is 0, a string of digits is its value, any
\* other string is NaN
Number(x) ==
    IF \A i \in 1 .. Len(x) : x[i] \in Digits
    THEN [nan |-> FALSE, n |-> Decimal(x)]
    ELSE [nan |-> TRUE, n |-> 0]

isNaN(x) == x.nan

\* v * (Math.PI / 180)
timesS(v) == (v.n * Pi10k) \div 180

fromEuler(x, y, z) == [euler |-> <<x, y, z>>]

convertBack(value) ==
    LET notNaN(x) == ~ isNaN(x)
        fields == split(value)
        numbers == [i \in 1 .. Len(fields) |-> Number(fields[i])]
        vs == SelectSeq(numbers, notNaN)
    IN  IF Len(vs) # 3
        THEN Return(ResultErr(value \o <<QuatMsg>>))
        ELSE Return(ResultOk(fromEuler(timesS(vs[1]), timesS(vs[2]), timesS(vs[3]))))

Init ==
    /\ op = "none"
    /\ args = <<>>
    /\ kcalls = <<>>
    /\ ret = [kind |-> "none"]

\* The handlers keep no state between calls, so a behaviour is one call:
\* every action starts from the idle state.
Idle == op = "none"

Do(name, a, run) ==
    /\ op' = name
    /\ args' = a
    /\ kcalls' = run.kcalls
    /\ ret' = run.ret

(***************************************************************************)
(* Actions: one per handler.                                               *)
(***************************************************************************)
Face ==
    /\ Idle
    /\ \E wr \in ShapeLists, k \in KernelOutcomes :
            Do("face", [wire |-> wr], face(wr, k))

PointLists == SeqsUpTo(SamplePoints, 2)
Weights == {[given |-> FALSE, v |-> <<>>], [given |-> TRUE, v |-> <<>>],
            [given |-> TRUE, v |-> <<1, 5>>]}

Bezier ==
    /\ Idle
    /\ \E ps \in PointLists, w \in Weights, k \in KernelOutcomes :
            Do("bezier", [points |-> ps, weights |-> w], bezier(ps, w, k))

Point ==
    /\ Idle
    /\ \E p \in SamplePoints, k \in KernelOutcomes :
            Do("point", [point |-> p], point(p, k))

Line ==
    /\ Idle
    /\ \E s \in SamplePoints, e \in Points, k \in KernelOutcomes :
            Do("line", [start |-> s, end |-> e], line(s, e, k))

Arc ==
    /\ Idle
    /\ \E n \in SamplePoints, c \in SamplePoints, s \in SamplePoints, a \in Degrees, k \in KernelOutcomes :
            Do("arc", [normal |-> n, center |-> c, start |-> s, angle |-> a], arc(n, c, s, a, k))

Circle ==
    /\ Idle
    /\ \E n \in SamplePoints, c \in SamplePoints, r \in Lengths, k \in KernelOutcomes :
            Do("circle", [normal |-> n, center |-> c, radius |-> r], circle(n, c, r, k))

Rect ==
    /\ Idle
    /\ \E pl \in Planes, dx \in Lengths, dy \in Lengths, k \in KernelOutcomes :
            Do("rect", [plane |-> pl, dx |-> dx, dy |-> dy], rect(pl, dx, dy, k))

Polygon ==
    /\ Idle
    /\ \E ps \in PointLists, k \in KernelOutcomes :
            Do("polygon", [points |-> ps], polygon(ps, k))

Box ==
    /\ Idle
    /\ \E pl \in Planes, dx \in Lengths, dy \in Lengths, dz \in Lengths, k \in KernelOutcomes :
            Do("box", [plane |-> pl, dx |-> dx, dy |-> dy, dz |-> dz], box(pl, dx, dy, dz, k))

Wire ==
    /\ Idle
    /\ \E es \in ShapeLists, k \in KernelOutcomes :
            Do("wire", [edges |-> es], wire(es, k))

Prism ==
    /\ Idle
    /\ \E sh \in Shapes, v \in Points, k \in KernelOutcomes :
            Do("prism", [shape |-> sh, vec |-> v], prism(sh, v, k))

Fuse ==
    /\ Idle
    /\ \E b \in Shapes, t \in Shapes, k \in KernelOutcomes :
            Do("fuse", [bottom |-> b, top |-> t], fuse(b, t, k))

Sweep ==
    /\ Idle
    /\ \E pr \in Shapes, pa \in Shapes, k \in KernelOutcomes :
            Do("sweep", [profile |-> pr, path |-> pa], sweep(pr, pa, k))

Revolve ==
    /\ Idle
    /\ \E pr \in Shapes, ax \in Rays, a \in Degrees, k \in KernelOutcomes :
            Do("revolve", [profile |-> pr, axis |-> ax, angle |-> a], revolve(pr, ax, a, k))

BooleanCommon ==
    /\ Idle
    /\ \E s1 \in Shapes, s2 \in Shapes, k \in KernelOutcomes :
            Do("booleanCommon", [shape1 |-> s1, shape2 |-> s2], booleanCommon(s1, s2, k))

BooleanCut ==
    /\ Idle
    /\ \E s1 \in Shapes, s2 \in Shapes, k \in KernelOutcomes :
            Do("booleanCut", [shape1 |-> s1, shape2 |-> s2], booleanCut(s1, s2, k))

BooleanFuse ==
    /\ Idle
    /\ \E s1 \in Shapes, s2 \in Shapes, k \in KernelOutcomes :
            Do("booleanFuse", [shape1 |-> s1, shape2 |-> s2], booleanFuse(s1, s2, k))

Combine ==
    /\ Idle
    /\ \E ss \in ShapeLists, k \in KernelOutcomes :
            Do("combine", [shapes |-> ss], combine(ss, k))

MakeThickSolidBySimple ==
    /\ Idle
    /\ \E sh \in Shapes, th \in Lengths, k \in KernelOutcomes :
            Do("makeThickSolidBySimple", [shape |-> sh, thickness |-> th],
           makeThickSolidBySimple(sh, th, k))

MakeThickSolidByJoin ==
    /\ Idle
    /\ \E sh \in Shapes, cf \in ShapeLists, th \in Lengths, k \in KernelOutcomes :
            Do("makeThickSolidByJoin", [shape |-> sh, closingFaces |-> cf, thickness |-> th],
           makeThickSolidByJoin(sh, cf, th, k))

\* ensureOccShape on its own, on an array or on one shape
EnsureOccShape ==
    /\ Idle
    /\ \E x \in {Arr(ss) : ss \in ShapeLists} \cup {One(sh) : sh \in Shapes} :
            Do("ensureOccShape", [shapes |-> x], NoKernel(ensureOccShape(x)))

ConvertShapeResult ==
    /\ Idle
    /\ \E k \in KernelOutcomes :
            Do("convertShapeResult", [result |-> k], NoKernel(Return(convertShapeResult(k))))

JsValues == {JsString("11"), JsString("err"), JsString(""), JsBoolean(TRUE), JsBoolean(FALSE),
             JsUndefined, JsNumber(0)}

ResultOkCall ==
    /\ Idle
    /\ \E v \in JsValues :
            Do("Result.ok", [value |-> v], NoKernel(Return(ResultOk(v))))

ResultErrCall ==
    /\ Idle
    /\ \E e \in JsValues :
            Do("Result.err", [error |-> e], NoKernel(Return(ResultErr(e))))

ConvertBack ==
    /\ Idle
    /\ \E text \in Texts :
            Do("convertBack", [value |-> text], NoKernel(convertBack(text)))

Next ==
    \/ Face \/ Bezier \/ Point \/ Line \/ Arc \/ Circle \/ Rect \/ Polygon \/ Box
    \/ Wire \/ Prism \/ Fuse \/ Sweep \/ Revolve \/ BooleanCommon \/ BooleanCut
    \/ BooleanFuse \/ Combine \/ MakeThickSolidBySimple \/ MakeThickSolidByJoin
    \/ EnsureOccShape \/ ConvertShapeResult \/ ResultOkCall \/ ResultErrCall
    \/ ConvertBack

Spec == Init /\ [][Next]_vars
(***************************************************************************)
(* State functions used by the properties.                                 *)
(***************************************************************************)
ShapeOps == {"face", "wire", "prism", "fuse", "sweep", "revolve", "booleanCommon",
             "booleanCut", "booleanFuse", "combine", "makeThickSolidBySimple",
             "makeThickSolidByJoin"}
FactoryOps == ShapeOps \cup {"bezier", "point", "line", "arc", "circle", "rect", "polygon", "box"}

\* the shape arguments of the call, single ones and list elements, in
\* argument order
ShapeArgs ==
    CASE op = "face" -> args.wire
      [] op = "wire" -> args.edges
      [] op = "prism" -> <<args.shape>>
      [] op = "fuse" -> <<args.bottom, args.top>>
      [] op = "sweep" -> <<args.profile, args.path>>
      [] op = "revolve" -> <<args.profile>>
      [] op \in {"booleanCommon", "booleanCut", "booleanFuse"} -> <<args.shape1, args.shape2>>
      [] op = "combine" -> args.shapes
      [] op = "makeThickSolidBySimple" -> <<args.shape>>
      [] op = "makeThickSolidByJoin" -> <<args.shape>> \o args.closingFaces
      [] OTHER -> <<>>

AnyForeign == \E i \in 1 .. Len(ShapeArgs) : ShapeArgs[i].cls # "OccShape"
Faulted == ret.kind = "throw"
ReturnedErr == ret.kind = "return" /\ ~ ret.value.isOk
ReturnedOk == ret.kind = "return" /\ ret.value.isOk
KernelReached == kcalls # <<>>
HandlesOf(shapes) == [i \in 1 .. Len(shapes) |-> shapes[i].shape]
ExactZero(v) == v.x = 0 /\ v.y = 0 /\ v.z = 0
\* every component within epsilon of zero
WithinEps(dx, dy, dz) == Abs(dx) <= Eps /\ Abs(dy) <= Eps /\ Abs(dz) <= Eps
DistSq(p, q) == (p.x - q.x) * (p.x - q.x) + (p.y - q.y) * (p.y - q.y) + (p.z - q.z) * (p.z - q.z)

(***************************************************************************)
(* C1                                                                      *)
(***************************************************************************)
\* C1 as stated: in every operation that accepts shapes, whatever its other
\* arguments, a shape that is not an OccShape (alone or in a list) ends the
\* call in a thrown error, never in a returned Result.err.
C1_ForeignAlwaysFaults ==
    (op \in ShapeOps /\ AnyForeign) => Faulted

\* C1 amended: a foreign shape ends the call in the thrown error, with no
\* kernel call, except in prism with a vec of length 0, where the length check
\* comes first and the call returns its validation Result.err.
C1_ForeignFaultsUnlessPrismZero ==
    (op \in ShapeOps /\ AnyForeign) =>
        /\ kcalls = <<>>
        /\ IF op = "prism" /\ ExactZero(args.vec)
           THEN ret = Return(ResultErr(PrismMsg))
           ELSE ret = Throw(OccMsg)

C1_Witness ==
    /\ op = "makeThickSolidByJoin"
    /\ args.shape.cls = "OccShape"
    /\ Len(args.closingFaces) = 2
    /\ args.closingFaces[1].cls = "OccShape"
    /\ args.closingFaces[2].cls = "Foreign"
    /\ Faulted

(***************************************************************************)
(* C2                                                                      *)
(***************************************************************************)
\* C2 as stated: line returns its validation Result.err exactly when the
\* distance between start and end is below epsilon, and reaches the kernel
\* line call whenever the distance is at least epsilon.
C2_LineSplitsByDistance ==
    op = "line" =>
        /\ (ret = Return(ResultErr(LineMsg)) /\ kcalls = <<>>)
               <=> DistSq(args.start, args.end) < Eps * Eps
        /\ DistSq(args.start, args.end) >= Eps * Eps => KernelReached

\* C2 amended: line returns its validation Result.err, without a kernel call,
\* exactly when each of the three coordinate differences is within epsilon of
\* zero, and otherwise makes the kernel line call with start and end.
C2_LineSplitsByComponents ==
    op = "line" =>
        IF WithinEps(args.start.x - args.end.x, args.start.y - args.end.y,
                     args.start.z - args.end.z)
        THEN ret = Return(ResultErr(LineMsg)) /\ kcalls = <<>>
        ELSE /\ Len(kcalls) = 1
             /\ kcalls[1].fn = "line"
             /\ kcalls[1].args = <<args.start, args.end>>
             /\ ret # Return(ResultErr(LineMsg))

C2_Witness ==
    /\ op = "line"
    /\ args.start # args.end
    /\ DistSq(args.start, args.end) >= Eps * Eps
    /\ ret = Return(ResultErr(LineMsg))
    /\ kcalls = <<>>

(***************************************************************************)
(* C3                                                                      *)
(***************************************************************************)
\* C3: prism returns Result.err and makes no kernel call whenever every
\* component of vec is within epsilon of zero, and goes on to the unwrap and
\* the kernel prism call for every other vec.
C3_PrismRejectsNearZero ==
    op = "prism" =>
        IF WithinEps(args.vec.x, args.vec.y, args.vec.z)
        THEN ReturnedErr /\ kcalls = <<>>
        ELSE Faulted \/ (KernelReached /\ kcalls[1].fn = "prism")

(***************************************************************************)
(* C4                                                                      *)
(***************************************************************************)
\* C4: when a ShapeFactory operation reaches its kernel call, what it returns
\* is fixed by the kernel's answer: a failure gives Result.err of the text of
\* the kernel error, a success gives Result.ok of the wrapper of the handle
\* the kernel returned; it never throws.
C4_ReturnFollowsKernel ==
    (op \in FactoryOps /\ KernelReached) =>
        /\ Len(kcalls) = 1
        /\ ret.kind = "return"
        /\ IF kcalls[1].result.isOk
           THEN ret.value = [isOk |-> TRUE,
                             value |-> [cls |-> "OccShape", shape |-> kcalls[1].result.shape]]
           ELSE ret.value = [isOk |-> FALSE, error |-> kcalls[1].result.error.repr]

C4_Witness ==
    /\ op = "combine"
    /\ KernelReached
    /\ kcalls[1].result = [isOk |-> FALSE, error |-> JsNumber(7)]
    /\ ret = Return(ResultErr("7"))

(***************************************************************************)
(* C5                                                                      *)
(***************************************************************************)
\* C5: ensureOccShape of n OccShape wrappers returns exactly their n handles
\* in input order, of one wrapper the one-element sequence of its handle;
\* combine and makeThickSolidByJoin hand the kernel their list's handles in
\* input order.
C5_HandlesInOrder ==
    /\ (op = "ensureOccShape" /\ \A i \in 1 .. Len(args.shapes.elems) :
                                     args.shapes.elems[i].cls = "OccShape") =>
           /\ ret.kind = "return"
           /\ Len(ret.value) = Len(args.shapes.elems)
           /\ \A i \in 1 .. Len(args.shapes.elems) : ret.value[i] = args.shapes.elems[i].shape
    /\ (op = "combine" /\ KernelReached) =>
           kcalls[1].args = <<HandlesOf(args.shapes)>>
    /\ (op = "makeThickSolidByJoin" /\ KernelReached) =>
           kcalls[1].args = <<args.shape.shape, HandlesOf(args.closingFaces), args.thickness>>

C5_Witness ==
    /\ op = "combine"
    /\ KernelReached
    /\ Len(args.shapes) = 3
    /\ args.shapes[1].shape # args.shapes[3].shape
    /\ kcalls[1].args[1][1] = args.shapes[1].shape
    /\ kcalls[1].args[1][3] = args.shapes[3].shape

(***************************************************************************)
(* C6                                                                      *)
(***************************************************************************)
\* C6: Result.ok(v) has isOk true and value v, for every v, false and
\* undefined included; Result.err(e) has isOk false and error e.
C6_ResultHoldsPayload ==
    /\ op = "Result.ok" =>
           ret.kind = "return" /\ ret.value.isOk = TRUE /\ ret.value.value = args.value
    /\ op = "Result.err" =>
           ret.kind = "return" /\ ret.value.isOk = FALSE /\ ret.value.error = args.error

C6_Witness ==
    /\ op = "Result.ok"
    /\ args.value = JsUndefined
    /\ ret.value.isOk

(***************************************************************************)
(* C7                                                                      *)
(***************************************************************************)
\* the text is exactly three comma-separated fields, each a number
ThreeNumbers(text) ==
    LET fields == split(text)
    IN  /\ Len(fields) = 3
        /\ \A i \in 1 .. 3 : fields[i] # <<>> /\ \A j \in 1 .. Len(fields[i]) : fields[i][j] \in Digits

\* C7: convertBack returns Result.ok if and only if the text is exactly three
\* comma-separated fields that are each a valid number; any other text
\* returns Result.err; it never throws.
C7_OkIffThreeNumbers ==
    op = "convertBack" =>
        /\ ret.kind = "return"
        /\ ret.value.isOk <=> ThreeNumbers(args.value)

(***************************************************************************)
(* C8                                                                      *)
(***************************************************************************)
\* C8: arc and revolve hand the kernel the angle in radians, d * pi / 180;
\* every other numeric argument of every operation reaches the kernel as
\* given.
C8_RadiansAtKernel ==
    KernelReached =>
        /\ op = "arc" =>
               kcalls[1].args = <<args.normal, args.center, args.start, (args.angle * Pi10k) \div 180>>
        /\ op = "revolve" =>
               kcalls[1].args = <<args.profile.shape, args.axis, (args.angle * Pi10k) \div 180>>
        /\ op = "point" => kcalls[1].args = <<args.point>>
        /\ op = "line" => kcalls[1].args = <<args.start, args.end>>
        /\ op = "circle" => kcalls[1].args = <<args.normal, args.center, args.radius>>
        /\ op = "polygon" => kcalls[1].args = <<args.points>>
        /\ op = "bezier" => kcalls[1].args[1] = args.points
        /\ (op = "bezier" /\ args.weights.given) => kcalls[1].args[2] = args.weights.v
        /\ op = "rect" => kcalls[1].args[2] = args.dx /\ kcalls[1].args[3] = args.dy
        /\ op = "box" => /\ kcalls[1].args[2] = args.dx
                         /\ kcalls[1].args[3] = args.dy
                         /\ kcalls[1].args[4] = args.dz
        /\ op = "prism" => kcalls[1].args[2] = args.vec
        /\ op = "makeThickSolidBySimple" => kcalls[1].args[2] = args.thickness
        /\ op = "makeThickSolidByJoin" => kcalls[1].args[3] = args.thickness

C8_Witness ==
    /\ op = "revolve"
    /\ KernelReached
    /\ args.angle = 180
    /\ kcalls[1].args[3] = Pi10k

(***************************************************************************)
(* C9                                                                      *)
(***************************************************************************)
\* the answers the kernel can give in this call: the one it gave, or any if
\* the call was not reached
Answers == IF KernelReached THEN {kcalls[1].result} ELSE KernelOutcomes

\* C9: fuse(a, b) and booleanFuse(a, b) make the same kernel call, the
\* boolean fuse of a's handle then b's, and end the same way, the thrown
\* error for a foreign input included.
C9_FuseIsBooleanFuse ==
    /\ op = "fuse" =>
           /\ \A k \in Answers :
                  booleanFuse(args.bottom, args.top, k) = Run(kcalls, ret)
           /\ KernelReached =>
                  /\ kcalls[1].fn = "booleanFuse"
                  /\ kcalls[1].args = <<<<args.bottom.shape>>, <<args.top.shape>>>>
    /\ op = "booleanFuse" =>
           /\ \A k \in Answers :
                  fuse(args.shape1, args.shape2, k) = Run(kcalls, ret)
           /\ KernelReached =>
                  /\ kcalls[1].fn = "booleanFuse"
                  /\ kcalls[1].args = <<<<args.shape1.shape>>, <<args.shape2.shape>>>>

C9_Witness ==
    /\ op = "fuse"
    /\ KernelReached
    /\ args.bottom.shape # args.top.shape
    /\ ReturnedOk

(***************************************************************************)
(* C10                                                                     *)
(***************************************************************************)
\* C10: a call invokes the kernel at most once, and only when the operation's
\* validation passed and every shape argument is an OccShape; a call that
\* ends in a validation Result.err or in the thrown error made no kernel
\* call.
C10_KernelOnceAfterChecks ==
    op \in FactoryOps =>
        /\ Len(kcalls) <= 1
        /\ KernelReached =>
               /\ ~ AnyForeign
               /\ op = "line" => ~ WithinEps(args.start.x - args.end.x,
                                             args.start.y - args.end.y,
                                             args.start.z - args.end.z)
               /\ op = "prism" => ~ ExactZero(args.vec)
        /\ Faulted => kcalls = <<>>
        /\ ret \in {Return(ResultErr(LineMsg)), Return(ResultErr(PrismMsg))} => kcalls = <<>>

C10_Witness ==
    /\ op = "booleanCut"
    /\ args.shape1.cls = "OccShape"
    /\ args.shape2.cls = "Foreign"
    /\ Faulted
    /\ kcalls = <<>>
====
